---------------------------- MODULE Spec2Model ----------------------------
(***************************************************************************)
(* Model of compactor2/src/test_util/display.rs: the rendering of a list   *)
(* of parquet files as lines of text (format_files, format_files_split,    *)
(* readable_list_of_files and ParquetFileFormatter).                       *)
(*                                                                         *)
(* A String is a sequence of one-character strings, so that widths,        *)
(* padding and centring are computed as format! computes them.  An f64 is  *)
(* a record [m, e] standing for m * 2^e, with the 53-bit mantissa m held   *)
(* in two limbs, so that the two divisions of the source round as IEEE 754 *)
(* binary64 rounds them.                                                   *)
(***************************************************************************)
EXTENDS Integers, Sequences, FiniteSets, TLC

(***************************************************************************)
(* Bounds of the model.                                                    *)
(***************************************************************************)
\* longest file list handed to format_files / readable_list_of_files
MaxFiles == 3
\* longest file list of either half of format_files_split
MaxSplitFiles == 2
\* longest sequence of sizes folded by FileSizeSeen::observe on its own
MaxSizes == 4

(***************************************************************************)
(* Program constants.                                                      *)
(***************************************************************************)
DEFAULT_WIDTH == 80
DEFAULT_HEADING_WIDTH == 20

(***************************************************************************)
(* Strings.                                                                *)
(***************************************************************************)
\* str::repeat for a one-character string
Repeat(c, n) == [i \in 1..n |-> c]

\* usize::saturating_sub
SaturatingSub(a, b) == IF a >= b THEN a - b ELSE 0

Digits == <<"0", "1", "2", "3", "4", "5", "6", "7", "8", "9">>

RECURSIVE NatToString(_)
NatToString(n) ==
    IF n < 10 THEN <<Digits[n + 1]>>
    ELSE NatToString(n \div 10) \o <<Digits[(n % 10) + 1]>>

\* Display for i64: decimal digits, with a leading '-' for a negative value
I64ToString(n) == IF n < 0 THEN <<"-">> \o NatToString(-n) ELSE NatToString(n)

\* PadRight with the width taken for a precision as well: the text is cut
PadRightTruncating(s, width) ==
    SubSeq(s \o Repeat(" ", SaturatingSub(width, Len(s))), 1, width)

\* format!("{s:width$}"): left-aligned, padded with spaces, never truncated
PadRight(s, width) == s \o Repeat(" ", SaturatingSub(width, Len(s)))

\* format!("{s:fill^width$}"): centred, the odd padding character on the
\* right, never truncated
Center(s, fill, width) ==
    LET padding == SaturatingSub(width, Len(s))
        left == padding \div 2
    IN Repeat(fill, left) \o s \o Repeat(fill, padding - left)

(***************************************************************************)
(* f64 arithmetic.  A mantissa is [hi, lo], standing for hi * Limb + lo.   *)
(***************************************************************************)
Limb == 2^27

MantOfNat(n) == [hi |-> n \div Limb, lo |-> n % Limb]

MantToNat(x) == x.hi * Limb + x.lo

MantZero == [hi |-> 0, lo |-> 0]

MantGeq(x, y) == x.hi > y.hi \/ (x.hi = y.hi /\ x.lo >= y.lo)

MantSub(x, y) ==
    IF x.lo >= y.lo
    THEN [hi |-> x.hi - y.hi, lo |-> x.lo - y.lo]
    ELSE [hi |-> x.hi - y.hi - 1, lo |-> x.lo + Limb - y.lo]

\* 2 * x + bit
MantShiftIn(x, bit) ==
    LET l == 2 * x.lo + bit
    IN [hi |-> 2 * x.hi + (l \div Limb), lo |-> l % Limb]

\* x \div 2^n
MantShiftRight(x, n) ==
    IF n >= 57 THEN [hi |-> 0, lo |-> 0]
    ELSE IF n >= 27 THEN [hi |-> 0, lo |-> x.hi \div (2^(n - 27))]
    ELSE [hi |-> x.hi \div (2^n),
          lo |-> (x.lo \div (2^n)) + (x.hi % (2^n)) * (2^(27 - n))]

MantInc(x) ==
    IF x.lo + 1 = Limb THEN [hi |-> x.hi + 1, lo |-> 0]
    ELSE [hi |-> x.hi, lo |-> x.lo + 1]

RECURSIVE BitLen(_)
BitLen(n) == IF n = 0 THEN 0 ELSE 1 + BitLen(n \div 2)

MantBitLen(x) == IF x.hi > 0 THEN 27 + BitLen(x.hi) ELSE BitLen(x.lo)

\* bit k of x, bit 0 the least significant
MantBit(x, k) ==
    IF k >= 27 THEN (x.hi \div (2^(k - 27))) % 2 ELSE (x.lo \div (2^k)) % 2

\* `n as f64` for 0 <= n < 2^31: exact
F64OfNat(n) == [m |-> MantOfNat(n), e |-> 0]

\* one step of the binary long division of a (la bits) * 2^s by b: bit k
\* of the dividend, most significant first, enters the remainder
DivisionStep(a, la, b, k, st) ==
    LET bit == IF k <= la THEN MantBit(a, la - k) ELSE 0
        r == MantShiftIn(st.rem, bit)
    IN IF MantGeq(r, b)
       THEN [quo |-> MantShiftIn(st.quo, 1), rem |-> MantSub(r, b)]
       ELSE [quo |-> MantShiftIn(st.quo, 0), rem |-> r]

RECURSIVE LongDivision(_, _, _, _, _, _)
\* steps from..to of the long division, in order
LongDivision(a, la, b, from, to, st) ==
    IF from = to THEN DivisionStep(a, la, b, from, st)
    ELSE LET mid == (from + to) \div 2
             first == LongDivision(a, la, b, from, mid, st)
         IN \* the remainder stays below the divisor
            IF MantGeq(first.rem, b) THEN first
            ELSE LongDivision(a, la, b, mid + 1, to, first)

\* x / y in binary64 for x >= 0 and y > 0: the quotient of the mantissas to
\* 55 or 56 bits, rounded to 53 bits to nearest, ties to even
F64Div(x, y) ==
    IF x.m = MantZero THEN x
    ELSE LET la == MantBitLen(x.m)
             lb == MantBitLen(y.m)
             s == 55 + lb - la
             d == LongDivision(x.m, la, y.m, 1, la + s,
                               [quo |-> MantZero, rem |-> MantZero])
             drop == MantBitLen(d.quo) - 53
             kept == MantShiftRight(d.quo, drop)
             dropped == d.quo.lo % (2^drop)
             half == 2^(drop - 1)
             up == \/ dropped > half
                   \/ /\ dropped = half
                      /\ (d.rem # MantZero \/ kept.lo % 2 = 1)
         IN [m |-> IF up THEN MantInc(kept) ELSE kept,
             e |-> x.e - y.e - s + drop]

\* `x as usize` for x >= 0: truncation toward zero
F64ToUsize(x) ==
    IF x.e >= 0 THEN MantToNat(x.m) * (2^x.e)
    ELSE MantToNat(MantShiftRight(x.m, -x.e))

F64IsPositive(x) == x.m # MantZero

(***************************************************************************)
(* Inputs.  A ParquetFile is the record of the fields display.rs reads.    *)
(***************************************************************************)
CompactionLevels == {"Initial", "FileNonOverlapped", "Final"}

\* Ord of CompactionLevel: the order of its variants
LevelRank(level) ==
    CASE level = "Initial" -> 0
      [] level = "FileNonOverlapped" -> 1
      [] level = "Final" -> 2

ParquetFile(id, level, min_time, max_time, size) ==
    [id |-> id, compaction_level |-> level, min_time |-> min_time,
     max_time |-> max_time, file_size_bytes |-> size]

\* The files of the unit tests' first two snapshots (ids 1, 2, 3) and of
\* the third (id 11), a file that ends where the others start (id 5), one
\* whose width 33 of 44 ns is a quotient binary64 rounds below 60 (id 4),
\* one that spans 0..44 (id 6) and one with a long row heading (id 12).
ParquetFiles ==
    { ParquetFile(1, "Initial", 0, 0, 1),
      ParquetFile(2, "Initial", 0, 0, 1),
      ParquetFile(3, "Final", 0, 0, 42),
      ParquetFile(4, "FileNonOverlapped", 11, 44, 1),
      ParquetFile(5, "FileNonOverlapped", 44, 44, 1),
      ParquetFile(6, "Initial", 0, 44, 1),
      ParquetFile(11, "Initial", 150, 350, 44),
      ParquetFile(1200, "Final", 44, 44, 100042) }

\* the files handed to format_files_split
SplitFiles ==
    { ParquetFile(3, "Final", 0, 0, 42),
      ParquetFile(4, "FileNonOverlapped", 11, 44, 1),
      ParquetFile(6, "Initial", 0, 44, 1) }

Titles == { <<"d", "i", "s", "p", "l", "a", "y">>, <<"L", "0">> }

\* the sizes FileSizeSeen::observe is folded over on its own
Sizes == {0, 1, 42}

Injective(seq) ==
    \A i, j \in 1..Len(seq) : seq[i] = seq[j] => i = j

\* the lists of at most n distinct files of universe
FileLists(universe, n) ==
    UNION { { fs \in [1..k -> universe] : Injective(fs) } : k \in 0..n }

\* Option<String>: None is the empty sequence, Some(s) is <<s>>
None == <<>>
Some(s) == <<s>>

(***************************************************************************)
(* FileSizeSeen (lines 110-129).                                           *)
(***************************************************************************)
FileSizeSeenNone == [tag |-> "None"]
FileSizeSeenOne(sz) == [tag |-> "One", sz |-> sz]
FileSizeSeenMany == [tag |-> "Many"]

\* observe that keeps the last size seen and never finds a difference
ObserveLastWins(self, file_size_bytes) == FileSizeSeenOne(file_size_bytes)

\* FileSizeSeen::observe
Observe(self, file_size_bytes) ==
    CASE self.tag = "None" -> FileSizeSeenOne(file_size_bytes)
      [] self.tag = "One" /\ self.sz = file_size_bytes -> FileSizeSeenOne(self.sz)
      [] OTHER -> FileSizeSeenMany

(***************************************************************************)
(* ParquetFileFormatter (lines 131-243).                                   *)
(***************************************************************************)
Min(S) == CHOOSE x \in S : \A y \in S : x <= y
Max(S) == CHOOSE x \in S : \A y \in S : y <= x

RECURSIVE FoldObserve(_, _)
\* files.iter().fold(file_size_seen, |seen, file| seen.observe(file.file_size_bytes))
FoldObserve(file_size_seen, files) ==
    IF files = <<>> THEN file_size_seen
    ELSE FoldObserve(Observe(file_size_seen, Head(files).file_size_bytes), Tail(files))

\* new with the sizes compared within the level of the first file only
NewSizePerTier(files) ==
    LET min_time == Min({ files[i].min_time : i \in 1..Len(files) })
        max_time == Max({ files[i].max_time : i \in 1..Len(files) })
        of_tier == SelectSeq(files, LAMBDA f :
                                f.compaction_level = files[1].compaction_level)
    IN [file_size_seen |-> FoldObserve(FileSizeSeenNone, of_tier),
        row_heading_chars |-> DEFAULT_HEADING_WIDTH,
        width_chars |-> DEFAULT_WIDTH,
        ns_per_char |-> F64Div(F64OfNat(max_time - min_time), F64OfNat(DEFAULT_WIDTH)),
        min_time |-> min_time,
        max_time |-> max_time]

\* new with the time range counted inclusively, max_time - min_time + 1
NewInclusiveRange(files) ==
    LET min_time == Min({ files[i].min_time : i \in 1..Len(files) })
        max_time == Max({ files[i].max_time : i \in 1..Len(files) })
    IN [file_size_seen |-> FoldObserve(FileSizeSeenNone, files),
        row_heading_chars |-> DEFAULT_HEADING_WIDTH,
        width_chars |-> DEFAULT_WIDTH,
        ns_per_char |-> F64Div(F64OfNat(max_time - min_time + 1),
                               F64OfNat(DEFAULT_WIDTH)),
        min_time |-> min_time,
        max_time |-> max_time]

\* ParquetFileFormatter::new, for a non-empty list of files.  The times of
\* ParquetFiles are far from the ends of i64, so max_time - min_time
\* (line 153) is the difference itself.
New(files) ==
    LET row_heading_chars == DEFAULT_HEADING_WIDTH
        width_chars == DEFAULT_WIDTH
        min_time == Min({ files[i].min_time : i \in 1..Len(files) })
        max_time == Max({ files[i].max_time : i \in 1..Len(files) })
        file_size_seen == FoldObserve(FileSizeSeenNone, files)
        time_range == max_time - min_time
        ns_per_char == F64Div(F64OfNat(time_range), F64OfNat(width_chars))
    IN [file_size_seen |-> file_size_seen,
        row_heading_chars |-> row_heading_chars,
        width_chars |-> width_chars,
        ns_per_char |-> ns_per_char,
        min_time |-> min_time,
        max_time |-> max_time]

\* ParquetFileFormatter::time_range_to_chars; a negative quotient casts to 0
TimeRangeToChars(self, time_range) ==
    IF F64IsPositive(self.ns_per_char)
    THEN IF time_range < 0 THEN 0
         ELSE F64ToUsize(F64Div(F64OfNat(time_range), self.ns_per_char))
    ELSE IF time_range > 0 THEN self.width_chars
    ELSE 0

DisplayLevel(compaction_level) ==
    CASE compaction_level = "Initial" -> <<"L", "0">>
      [] compaction_level = "FileNonOverlapped" -> <<"L", "1">>
      [] compaction_level = "Final" -> <<"L", "2">>

\* display_file_id: like L0.1
DisplayFileId(file) ==
    DisplayLevel(file.compaction_level) \o <<".">> \o I64ToString(file.id)

\* display_format: like L0.1[100,200] or L0.1[100,200] 1b
DisplayFormat(file, show_size) ==
    LET file_id == DisplayFileId(file)
        times == <<"[">> \o I64ToString(file.min_time) \o <<",">>
                 \o I64ToString(file.max_time) \o <<"]">>
    IN IF show_size
       THEN file_id \o times \o <<" ">> \o I64ToString(file.file_size_bytes) \o <<"b">>
       ELSE file_id \o times

AllFiles == <<",", " ", "a", "l", "l", " ", "f", "i", "l", "e", "s", " ">>

\* ParquetFileFormatter::format_level
FormatLevel(self, level) ==
    LET level_heading ==
            IF self.file_size_seen.tag = "One"
            THEN DisplayLevel(level) \o AllFiles
                 \o I64ToString(self.file_size_seen.sz) \o <<"b">>
            ELSE DisplayLevel(level)
    IN PadRight(level_heading, self.width_chars + self.row_heading_chars)

\* the bar without the special case of line 201
FileStringNoSpecialCase(self, file) ==
    <<"|">>
    \o Center(DisplayFileId(file), "-",
              SaturatingSub(TimeRangeToChars(self, file.max_time - file.min_time), 2))
    \o <<"|">>

\* the |---label---| of format_file (lines 198-211)
FileString(self, file) ==
    LET time_width == file.max_time - file.min_time
        field_width ==
            SaturatingSub(IF self.min_time = self.max_time
                          THEN self.width_chars
                          ELSE TimeRangeToChars(self, time_width), 2)
    IN <<"|">> \o Center(DisplayFileId(file), "-", field_width) \o <<"|">>

\* format_file without line 235: the padding after the bar is
\* width_chars less the bar alone
FormatFilePostfixIgnoresPrefix(self, file) ==
    LET time_width == file.max_time - file.min_time
        field_width ==
            SaturatingSub(IF self.min_time = self.max_time
                          THEN self.width_chars
                          ELSE TimeRangeToChars(self, time_width), 2)
        file_string == <<"|">> \o Center(DisplayFileId(file), "-", field_width)
                       \o <<"|">>
        row_heading == DisplayFormat(file, self.file_size_seen.tag = "Many")
    IN IF self.min_time = self.max_time
       THEN PadRight(row_heading, self.row_heading_chars)
            \o Center(file_string, " ", self.width_chars)
       ELSE PadRight(row_heading, self.row_heading_chars)
            \o Repeat(" ", TimeRangeToChars(self, file.min_time - self.min_time))
            \o file_string
            \o Repeat(" ", SaturatingSub(self.width_chars, Len(file_string)))

\* ParquetFileFormatter::format_file.  i64::saturating_sub (line 228)
\* saturates at the ends of i64 only: here it is the difference itself.
FormatFile(self, file) ==
    LET file_string == FileString(self, file)
        show_size == self.file_size_seen.tag = "Many"
        row_heading == DisplayFormat(file, show_size)
    IN IF self.min_time = self.max_time
       THEN PadRight(row_heading, self.row_heading_chars)
            \o Center(file_string, " ", self.width_chars)
       ELSE LET prefix_time_range == file.min_time - self.min_time
                prefix_padding ==
                    Repeat(" ", TimeRangeToChars(self, prefix_time_range))
                postfix_padding_len ==
                    SaturatingSub(SaturatingSub(self.width_chars, Len(file_string)),
                                  Len(prefix_padding))
                postfix_padding == Repeat(" ", postfix_padding_len)
            IN PadRight(row_heading, self.row_heading_chars)
               \o prefix_padding \o file_string \o postfix_padding

(***************************************************************************)
(* The BTreeMap of readable_list_of_files: its entries, in key order.      *)
(***************************************************************************)
BTreeKeys(map) == { map[i].key : i \in 1..Len(map) }

\* the map of an insertion-ordered container: a new key goes last
EntryOrInsertPushUnordered(map, key, file) ==
    IF key \in BTreeKeys(map)
    THEN [i \in 1..Len(map) |->
            IF map[i].key = key
            THEN [key |-> key, value |-> Append(map[i].value, file)]
            ELSE map[i]]
    ELSE Append(map, [key |-> key, value |-> <<file>>])

\* the file put at the front of its level's list, not pushed at its end
EntryOrInsertPushFront(map, key, file) ==
    IF key \in BTreeKeys(map)
    THEN [i \in 1..Len(map) |->
            IF map[i].key = key
            THEN [key |-> key, value |-> <<file>> \o map[i].value]
            ELSE map[i]]
    ELSE LET before == SelectSeq(map, LAMBDA e : LevelRank(e.key) < LevelRank(key))
             after == SelectSeq(map, LAMBDA e : LevelRank(e.key) > LevelRank(key))
         IN before \o << [key |-> key, value |-> <<file>>] >> \o after

\* files_by_level.entry(key).or_insert_with(Vec::new).push(file)
EntryOrInsertPush(map, key, file) ==
    IF key \in BTreeKeys(map)
    THEN [i \in 1..Len(map) |->
            IF map[i].key = key
            THEN [key |-> key, value |-> Append(map[i].value, file)]
            ELSE map[i]]
    ELSE LET before == SelectSeq(map, LAMBDA e : LevelRank(e.key) < LevelRank(key))
             after == SelectSeq(map, LAMBDA e : LevelRank(e.key) > LevelRank(key))
         IN before \o << [key |-> key, value |-> <<file>>] >> \o after

\* the two results chained the wrong way round
ChainReversed(first, second) == second \o first

\* strings1.into_iter().chain(strings2.into_iter()).collect()
Chain(first, second) == first \o second

(***************************************************************************)
(* State.                                                                  *)
(***************************************************************************)
VARIABLES
    pc,              \* where the call in progress stands
    op,              \* the function called: its name
    args,            \* its arguments: title1, files1, title2, files2
    call,            \* which call of readable_list_of_files is running
    title,           \* readable_list_of_files: title, an Option<String>
    files,           \* readable_list_of_files: the collected files
    output,          \* readable_list_of_files: output
    formatter,       \* readable_list_of_files: formatter, once built
    files_by_level,  \* readable_list_of_files: the BTreeMap
    idx,             \* the position of the loop over files, line 59
    level_files,     \* the files of the inner loop, line 68, still to format
    strings1,        \* format_files_split: strings1
    strings2,        \* format_files_split: strings2
    result,          \* what the function called returned
    seen,            \* a FileSizeSeen folded on its own
    observed         \* the sizes it has observed, in order

vars == <<pc, op, args, call, title, files, output, formatter, files_by_level,
          idx, level_files, strings1, strings2, result, seen, observed>>

locals == <<output, formatter, files_by_level, idx, level_files>>

tracker == <<seen, observed>>

NoArgs == [title1 |-> None, files1 |-> <<>>, title2 |-> None, files2 |-> <<>>]

Init ==
    /\ pc = "idle"
    /\ op = "none"
    /\ args = NoArgs
    /\ call = 0
    /\ title = None
    /\ files = <<>>
    /\ output = <<>>
    /\ formatter = <<>>
    /\ files_by_level = <<>>
    /\ idx = 0
    /\ level_files = <<>>
    /\ strings1 = <<>>
    /\ strings2 = <<>>
    /\ result = <<>>
    /\ seen = FileSizeSeenNone
    /\ observed = <<>>

\* a call of readable_list_of_files(t, fs) starts: its locals are fresh
Enter(t, fs) ==
    /\ title' = t
    /\ files' = fs
    /\ output' = <<>>
    /\ formatter' = <<>>
    /\ files_by_level' = <<>>
    /\ idx' = 0
    /\ level_files' = <<>>
    /\ pc' = "start"

(***************************************************************************)
(* The functions called.                                                   *)
(***************************************************************************)
\* format_files(title, files), lines 8-13
FormatFiles ==
    /\ pc = "idle"
    /\ \E t \in Titles, fs \in FileLists(ParquetFiles, MaxFiles) :
          /\ op' = "format_files"
          /\ args' = [NoArgs EXCEPT !.title1 = Some(t), !.files1 = fs]
          /\ call' = 1
          /\ Enter(Some(t), fs)
    /\ UNCHANGED <<strings1, strings2, result, tracker>>

\* readable_list_of_files(None, files), lines 41-44
ReadableListOfFiles ==
    /\ pc = "idle"
    /\ \E fs \in FileLists(ParquetFiles, MaxFiles) :
          /\ op' = "readable_list_of_files"
          /\ args' = [NoArgs EXCEPT !.files1 = fs]
          /\ call' = 1
          /\ Enter(None, fs)
    /\ UNCHANGED <<strings1, strings2, result, tracker>>

\* format_files_split(title1, files1, title2, files2), lines 18-24
FormatFilesSplit ==
    /\ pc = "idle"
    /\ \E t1 \in Titles, t2 \in Titles,
          fs1 \in FileLists(SplitFiles, MaxSplitFiles),
          fs2 \in FileLists(SplitFiles, MaxSplitFiles) :
          /\ op' = "format_files_split"
          /\ args' = [title1 |-> Some(t1), files1 |-> fs1,
                      title2 |-> Some(t2), files2 |-> fs2]
          /\ call' = 1
          /\ Enter(Some(t1), fs1)
    /\ UNCHANGED <<strings1, strings2, result, tracker>>

(***************************************************************************)
(* readable_list_of_files, step by step.                                   *)
(***************************************************************************)
\* Start without the return of lines 51-53
StartNoEmptyCheck ==
    /\ pc = "start"
    /\ output' = (IF title # None THEN <<title[1]>> ELSE <<>>)
    /\ pc' = "new"
    /\ UNCHANGED <<op, args, call, title, files, formatter, files_by_level,
                   idx, level_files, strings1, strings2, result, tracker>>

\* lines 45-53: the title, the files collected, the return when empty
Start ==
    /\ pc = "start"
    /\ output' = (IF title # None THEN <<title[1]>> ELSE <<>>)
    /\ pc' = (IF files = <<>> THEN "return" ELSE "new")
    /\ UNCHANGED <<op, args, call, title, files, formatter, files_by_level,
                   idx, level_files, strings1, strings2, result, tracker>>

\* line 55: ParquetFileFormatter::new, which panics on an empty list
\* (.expect("at least one file"), lines 141 and 146)
NewFormatter ==
    /\ pc = "new"
    /\ IF files = <<>>
       THEN /\ pc' = "panic"
            /\ UNCHANGED <<formatter, idx>>
       ELSE /\ formatter' = <<New(files)>>
            /\ idx' = 1
            /\ pc' = "group"
    /\ UNCHANGED <<op, args, call, title, files, output, files_by_level,
                   level_files, strings1, strings2, result, tracker>>

\* lines 59-64: one turn of the loop that files each file under its level
GroupFile ==
    /\ pc = "group"
    /\ idx <= Len(files)
    /\ files_by_level' =
          EntryOrInsertPush(files_by_level, files[idx].compaction_level, files[idx])
    /\ idx' = idx + 1
    /\ pc' = (IF idx = Len(files) THEN "emit" ELSE "group")
    /\ UNCHANGED <<op, args, call, title, files, output, formatter,
                   level_files, strings1, strings2, result, tracker>>

\* after a line is pushed: back to the loops, or past them to line 73
AfterPush(rest_of_level, rest_of_map) ==
    IF rest_of_level = <<>> /\ rest_of_map = <<>> THEN "return" ELSE "emit"

\* lines 66-67: the next level of the map, in key order, and its heading
EmitLevel ==
    /\ pc = "emit"
    /\ level_files = <<>>
    /\ files_by_level # <<>>
    /\ output' = Append(output, FormatLevel(formatter[1], Head(files_by_level).key))
    /\ level_files' = Head(files_by_level).value
    /\ files_by_level' = Tail(files_by_level)
    /\ pc' = AfterPush(level_files', files_by_level')
    /\ UNCHANGED <<op, args, call, title, files, formatter, idx,
                   strings1, strings2, result, tracker>>

\* lines 68-70: the next file of the level
EmitFile ==
    /\ pc = "emit"
    /\ level_files # <<>>
    /\ output' = Append(output, FormatFile(formatter[1], Head(level_files)))
    /\ level_files' = Tail(level_files)
    /\ pc' = AfterPush(level_files', files_by_level)
    /\ UNCHANGED <<op, args, call, title, files, formatter, files_by_level,
                   idx, strings1, strings2, result, tracker>>

\* lines 52 and 73 of a call made by format_files or from outside: the
\* output is what the function called returns (line 12)
Return ==
    /\ pc = "return"
    /\ op \in {"format_files", "readable_list_of_files"}
    /\ result' = output
    /\ pc' = "done"
    /\ UNCHANGED <<op, args, call, title, files, locals, strings1, strings2,
                   tracker>>

\* line 24: the first call returns strings1; line 25: the second call
ReturnFirst ==
    /\ pc = "return"
    /\ op = "format_files_split"
    /\ call = 1
    /\ strings1' = output
    /\ call' = 2
    /\ Enter(args.title2, args.files2)
    /\ UNCHANGED <<op, args, strings2, result, tracker>>

\* line 25: the second call returns strings2; line 27: the two chained
ReturnSecond ==
    /\ pc = "return"
    /\ op = "format_files_split"
    /\ call = 2
    /\ strings2' = output
    /\ result' = Chain(strings1, output)
    /\ pc' = "done"
    /\ UNCHANGED <<op, args, call, title, files, locals, strings1, tracker>>

Next ==
    \/ FormatFiles
    \/ ReadableListOfFiles
    \/ FormatFilesSplit
    \/ Start
    \/ NewFormatter
    \/ GroupFile
    \/ EmitLevel
    \/ EmitFile
    \/ Return
    \/ ReturnFirst
    \/ ReturnSecond

Spec == Init /\ [][Next]_vars

(***************************************************************************)
(* FileSizeSeen folded on its own, over every sequence of sizes.           *)
(***************************************************************************)
\* one more size observed (lines 149-151)
ObserveNext ==
    /\ Len(observed) < MaxSizes
    /\ \E sz \in Sizes :
          /\ seen' = Observe(seen, sz)
          /\ observed' = Append(observed, sz)
    /\ UNCHANGED <<pc, op, args, call, title, files, locals, strings1,
                   strings2, result>>

NextObserve == ObserveNext

SpecObserve == Init /\ [][NextObserve]_vars

(***************************************************************************)
(* What the claims are stated with: the input and the returned lines of a  *)
(* finished call of format_files or readable_list_of_files.                *)
(***************************************************************************)
Done == pc = "done"

Single == op \in {"format_files", "readable_list_of_files"}

Input == args.files1

\* the indices of the lines after the title
BodyIdx == (Len(args.title1) + 1)..Len(result)

Spaces(n) == [i \in 1..n |-> " "]

Dashes(n) == [i \in 1..n |-> "-"]

AtLeastZero(n) == IF n < 0 THEN 0 ELSE n

StartsWith(line, prefix) ==
    Len(line) >= Len(prefix) /\ SubSeq(line, 1, Len(prefix)) = prefix

Tiers == <<"Initial", "FileNonOverlapped", "Final">>

TierDigits == <<"0", "1", "2">>

TierIndex(level) == CHOOSE t \in 1..3 : Tiers[t] = level

\* a header line of tier t: L<t> and then a space or the ", all files"
IsHeaderOf(line, t) ==
    /\ Len(line) >= 3
    /\ line[1] = "L"
    /\ line[2] = TierDigits[t]
    /\ line[3] \in {" ", ","}

IsHeaderLine(line) == \E t \in 1..3 : IsHeaderOf(line, t)

\* a file line: L<t>.<id>[...
IsFileLine(line) ==
    /\ Len(line) >= 3
    /\ line[1] = "L"
    /\ line[2] \in {"0", "1", "2"}
    /\ line[3] = "."

\* the line of file f: it starts L<t>.<id>[
IsLineOf(line, f) ==
    StartsWith(line, <<"L", TierDigits[TierIndex(f.compaction_level)], ".">>
                     \o I64ToString(f.id) \o <<"[">>)

Label(f) ==
    <<"L", TierDigits[TierIndex(f.compaction_level)], ".">> \o I64ToString(f.id)

GlobalMin == CHOOSE t \in { Input[i].min_time : i \in 1..Len(Input) } :
                \A i \in 1..Len(Input) : t <= Input[i].min_time

GlobalMax == CHOOSE t \in { Input[i].max_time : i \in 1..Len(Input) } :
                \A i \in 1..Len(Input) : Input[i].max_time <= t

SameSizes == \A i, j \in 1..Len(Input) :
                Input[i].file_size_bytes = Input[j].file_size_bytes

\* the row heading of file f, with its size when the sizes differ
Heading(f) ==
    Label(f) \o <<"[">> \o I64ToString(f.min_time) \o <<",">>
    \o I64ToString(f.max_time) \o <<"]">>
    \o (IF SameSizes THEN <<>>
        ELSE <<" ">> \o I64ToString(f.file_size_bytes) \o <<"b">>)

\* the row heading in its column of heading_width
HeadingField(f) ==
    Heading(f) \o Spaces(DEFAULT_HEADING_WIDTH - Len(Heading(f)))

\* the bar of file f with a field of `interior` columns between the two |
Bar(f, interior) ==
    LET fill == AtLeastZero(interior - Len(Label(f)))
    IN <<"|">> \o Dashes(fill \div 2) \o Label(f) \o Dashes(fill - (fill \div 2))
       \o <<"|">>

\* C1: format_files returns the title as line 0; with no files the output
\* is the title alone and ParquetFileFormatter::new is never reached (no
\* formatter is built, nothing panics); readable_list_of_files with no
\* title and no files returns the empty sequence.
C1_TitleFirst ==
    /\ pc # "panic"
    /\ files = <<>> => formatter = <<>>
    /\ (Done /\ op = "format_files") =>
          /\ Len(result) >= 1
          /\ result[1] = args.title1[1]
          /\ Input = <<>> => result = <<args.title1[1]>>
    /\ (Done /\ op = "readable_list_of_files" /\ Input = <<>>) => result = <<>>

\* format_files has returned for an empty list of files
C1_Witness == Done /\ op = "format_files" /\ Input = <<>> /\ Len(result) = 1

\* C2: whatever the order of the input, the header lines come in the order
\* L0, L1, L2, one for each tier that has a file and none for the others.
C2_TierOrder ==
    (Done /\ Single /\ Input # <<>>) =>
        /\ \A k \in BodyIdx : IsHeaderLine(result[k]) \/ IsFileLine(result[k])
        /\ \A t \in 1..3 :
              Cardinality({ k \in BodyIdx : IsHeaderOf(result[k], t) })
              = IF \E i \in 1..Len(Input) : Input[i].compaction_level = Tiers[t]
                THEN 1 ELSE 0
        /\ \A k1, k2 \in BodyIdx : \A t1, t2 \in 1..3 :
              (k1 < k2 /\ IsHeaderOf(result[k1], t1) /\ IsHeaderOf(result[k2], t2))
              => t1 < t2

\* format_files has returned for three files given in the order L2, L1, L0
C2_Witness ==
    /\ Done /\ op = "format_files" /\ Len(Input) = 3
    /\ Input[1].compaction_level = "Final"
    /\ Input[2].compaction_level = "FileNonOverlapped"
    /\ Input[3].compaction_level = "Initial"
    /\ Len(result) = 7

\* C3: every input file has exactly one file line; the file lines of a
\* tier follow that tier's header line directly, in the order the files
\* had in the input.
C3_StablePartition ==
    (Done /\ Single /\ Input # <<>>) =>
        /\ Cardinality({ k \in BodyIdx : IsFileLine(result[k]) }) = Len(Input)
        /\ \A i \in 1..Len(Input) :
              /\ Cardinality({ k \in BodyIdx : IsLineOf(result[k], Input[i]) }) = 1
              \* from the tier's header down to the file's line: file lines only
              /\ \A k \in BodyIdx : IsLineOf(result[k], Input[i]) =>
                    \E h \in BodyIdx :
                        /\ h < k
                        /\ IsHeaderOf(result[h], TierIndex(Input[i].compaction_level))
                        /\ \A m \in (h + 1)..k : IsFileLine(result[m])
        /\ \A i, j \in 1..Len(Input) :
              (i < j /\ Input[i].compaction_level = Input[j].compaction_level) =>
                  \A ki, kj \in BodyIdx :
                      (IsLineOf(result[ki], Input[i]) /\ IsLineOf(result[kj], Input[j]))
                      => ki < kj

\* format_files has returned for two files of one tier, the higher id
\* first, with a file of another tier between them
C3_Witness ==
    /\ Done /\ op = "format_files" /\ Len(Input) = 3
    /\ Input[1].compaction_level = Input[3].compaction_level
    /\ Input[2].compaction_level # Input[1].compaction_level
    /\ LevelRank(Input[2].compaction_level) < LevelRank(Input[1].compaction_level)
    /\ Input[1].id > Input[3].id
    /\ Len(result) = 6

\* the row heading a file line shows: the line up to its first |, without
\* the spaces that pad it
ShownHeading(line) ==
    LET bars == { k \in 1..Len(line) : line[k] = "|" }
        first == CHOOSE k \in bars : \A m \in bars : k <= m
        text == { k \in 1..(first - 1) : line[k] # " " }
        last == CHOOSE k \in text : \A m \in text : m <= k
    IN SubSeq(line, 1, last)

C5_FullSpan ==
    (Done /\ Single /\ Input # <<>> /\ GlobalMin < GlobalMax) =>
        \A i \in 1..Len(Input) : \A k \in BodyIdx :
            ( /\ IsLineOf(result[k], Input[i])
              /\ Input[i].min_time = GlobalMin
              /\ Input[i].max_time = GlobalMax ) =>
                result[k] = HeadingField(Input[i])
                            \o Bar(Input[i], DEFAULT_WIDTH - 2)

\* format_files has returned for two files, one spanning the whole of a
\* positive time range, one a part of it
C5_Witness ==
    /\ Done /\ op = "format_files" /\ Len(Input) = 2
    /\ GlobalMin < GlobalMax
    /\ Input[1].min_time = GlobalMin /\ Input[1].max_time = GlobalMax
    /\ Input[2].min_time > GlobalMin
    /\ Input[2].max_time > Input[2].min_time
    /\ Len(result) >= 4

\* C6: when every time of the input is one instant, every file line is the
\* heading column and then the bar over the whole timeline: |,
\* timeline_width - 2 columns holding the label centred in -, |, with no
\* space before or after it.
C6_OneInstant ==
    (Done /\ Single /\ Input # <<>> /\ GlobalMin = GlobalMax) =>
        \A i \in 1..Len(Input) :
            /\ \E k \in BodyIdx : IsLineOf(result[k], Input[i])
            /\ \A k \in BodyIdx :
                  IsLineOf(result[k], Input[i]) =>
                      result[k] = HeadingField(Input[i])
                                  \o Bar(Input[i], DEFAULT_WIDTH - 2)

\* format_files has returned for three files of one instant
C6_Witness ==
    /\ Done /\ op = "format_files" /\ Len(Input) = 3
    /\ GlobalMin = GlobalMax
    /\ Len(result) >= 5

\* what readable_list_of_files(t, fs) is to return: the title, then for
\* each tier with files, in the order of the tiers, its header and the
\* lines of its files, all laid out for fs alone
TierBlock(fs, t) ==
    LET of_tier == SelectSeq(fs, LAMBDA f : f.compaction_level = Tiers[t])
    IN IF of_tier = <<>> THEN <<>>
       ELSE <<FormatLevel(New(fs), Tiers[t])>>
            \o [i \in 1..Len(of_tier) |-> FormatFile(New(fs), of_tier[i])]

Rendered(t, fs) ==
    IF fs = <<>> THEN t
    ELSE t \o TierBlock(fs, 1) \o TierBlock(fs, 2) \o TierBlock(fs, 3)

\* C7: format_files_split returns the lines of format_files(title1, files1)
\* and then those of format_files(title2, files2), each set laid out from
\* its own files alone.
C7_SplitIsConcatenation ==
    /\ (Done /\ op = "format_files") => result = Rendered(args.title1, args.files1)
    /\ (Done /\ op = "format_files_split") =>
          result = Rendered(args.title1, args.files1)
                   \o Rendered(args.title2, args.files2)

\* format_files_split has returned for two sets that differ in time range
\* and in size, each of one size
C7_Witness ==
    /\ Done /\ op = "format_files_split"
    /\ Len(args.files1) = 1 /\ Len(args.files2) = 1
    /\ args.files1[1].min_time < args.files1[1].max_time
    /\ args.files2[1].min_time = args.files2[1].max_time
    /\ args.files1[1].file_size_bytes # args.files2[1].file_size_bytes
    /\ args.title1 # args.title2
    /\ Len(result) = 6

\* the tracker after the sizes observed: None before any, One(v) when all
\* are v, Many when two differ
TrackerMatches ==
    /\ seen = FileSizeSeenNone <=> observed = <<>>
    /\ \A v \in Sizes :
          seen = FileSizeSeenOne(v) <=>
              (observed # <<>> /\ \A i \in 1..Len(observed) : observed[i] = v)
    /\ seen = FileSizeSeenMany <=>
          \E i, j \in 1..Len(observed) : observed[i] # observed[j]

\* one observation follows the transition table
TrackerStep ==
    LET v == observed'[Len(observed')]
    IN /\ seen.tag = "None" => seen' = FileSizeSeenOne(v)
       /\ (seen.tag = "One" /\ seen.sz = v) => seen' = FileSizeSeenOne(v)
       /\ (seen.tag = "One" /\ seen.sz # v) => seen' = FileSizeSeenMany
       /\ seen.tag = "Many" => seen' = FileSizeSeenMany
       /\ seen'.tag # "None"

\* C8: the tracker follows None + v -> One(v), One(v) + v -> One(v),
\* One(v) + v' -> Many, Many + any -> Many; once Many it stays Many and it
\* never returns to None; after any sizes it is One(v) exactly when all
\* are v and Many exactly when two differ.
C8_Tracker == []TrackerMatches /\ [][TrackerStep]_vars

\* two equal sizes, a different one and the first again have been observed
C8_Witness ==
    /\ Len(observed) >= 4
    /\ observed[1] = observed[2]
    /\ observed[3] # observed[1]
    /\ observed[4] = observed[1]
    /\ seen = FileSizeSeenMany

=============================================================================
